---------------------------- MODULE Spec2Model ----------------------------
(***************************************************************************)
(* A model of issh (src/issh.py): an interactive picker over the host      *)
(* aliases of an SSH client configuration file.                            *)
(*                                                                         *)
(* A text line is a sequence of one-character strings; the configuration   *)
(* file is either missing (NoFile) or a sequence of lines without their    *)
(* line terminators.  The controller is the ISSH object; pc is the place   *)
(* where its single thread currently is.                                   *)
(***************************************************************************)
EXTENDS Integers, Sequences, FiniteSets, TLC

(***************************************************************************)
(* Bounds of the model.                                                    *)
(***************************************************************************)
MaxLines == 3
NavMaxLines == 5
\* The two terminal heights of the model, in rows: one too small for the
\* whole list and for the help screen, one that shows both in full.
SmallRows == 3
LargeRows == 13

(***************************************************************************)
(* Text: characters, ordinals, the str methods used by load_ssh_hosts.     *)
(***************************************************************************)
TAB == "\t"

IsSpace(c) == c \in {" ", TAB}

\* Code point of the characters that occur in the modelled files.
Ord(c) ==
  CASE c = TAB -> 9
    [] c = " " -> 32
    [] c = "#" -> 35
    [] c = "*" -> 42
    [] c = "." -> 46
    [] c = "0" -> 48
    [] c = "1" -> 49
    [] c = "H" -> 72
    [] c = "N" -> 78
    [] c = "a" -> 97
    [] c = "b" -> 98
    [] c = "c" -> 99
    [] c = "e" -> 101
    [] c = "i" -> 105
    [] c = "l" -> 108
    [] c = "m" -> 109
    [] c = "n" -> 110
    [] c = "o" -> 111
    [] c = "r" -> 114
    [] c = "s" -> 115
    [] c = "t" -> 116
    [] c = "w" -> 119

\* str.rstrip(): drop trailing whitespace.
RECURSIVE rstrip(_)
rstrip(s) ==
  IF s = <<>> THEN s
  ELSE IF IsSpace(s[Len(s)]) THEN rstrip(SubSeq(s, 1, Len(s) - 1))
  ELSE s

\* str.lstrip(): drop leading whitespace.
RECURSIVE lstrip(_)
lstrip(s) ==
  IF s = <<>> THEN s
  ELSE IF IsSpace(s[1]) THEN lstrip(Tail(s))
  ELSE s

\* str.find(c): the 0-based index of the first occurrence of c, or -1.
find(s, c) ==
  IF \E i \in 1..Len(s) : s[i] = c
  THEN (CHOOSE i \in 1..Len(s) : s[i] = c /\ \A j \in 1..(i - 1) : s[j] # c) - 1
  ELSE 0 - 1

\* str.split(): the maximal runs of non-whitespace characters, in order.
RECURSIVE split(_)
split(s) ==
  LET t == lstrip(s) IN
  IF t = <<>> THEN <<>>
  ELSE LET stops == {i \in 1..Len(t) : IsSpace(t[i])}
           n == IF stops = {} THEN Len(t) + 1
                ELSE CHOOSE i \in stops : \A j \in stops : i <= j
       IN <<SubSeq(t, 1, n - 1)>> \o split(SubSeq(t, n, Len(t)))

\* str < str: lexicographic order by code point.
RECURSIVE StrLess(_, _)
StrLess(x, y) ==
  IF y = <<>> THEN FALSE
  ELSE IF x = <<>> THEN TRUE
  ELSE IF Ord(x[1]) # Ord(y[1]) THEN Ord(x[1]) < Ord(y[1])
  ELSE StrLess(Tail(x), Tail(y))

\* list.sort(): ascending, equal entries kept.
RECURSIVE InsertSorted(_, _)
InsertSorted(x, l) ==
  IF l = <<>> THEN <<x>>
  ELSE IF StrLess(x, l[1]) THEN <<x>> \o l
  ELSE <<l[1]>> \o InsertSorted(x, Tail(l))

RECURSIVE sort(_)
sort(l) == IF l = <<>> THEN <<>> ELSE InsertSorted(l[1], sort(Tail(l)))

(***************************************************************************)
(* load_ssh_hosts: the lines that are skipped, the alias of a line, and    *)
(* the list built from a file's lines.                                     *)
(***************************************************************************)
\* Mutant of SkipLine: the test for "*" is missing.
SkipLineKeepsWildcards(line) ==
  \/ Len(line) = 0
  \/ line[1] = " "
  \/ line[1] = TAB
  \/ lstrip(line)[1] = "#"

\* The condition of the `continue` on the right-stripped line.
SkipLine(line) ==
  \/ Len(line) = 0
  \/ line[1] = " "
  \/ line[1] = TAB
  \/ lstrip(line)[1] = "#"
  \/ find(line, "*") > 0 - 1

\* hosts after the loop body has run on one raw line.
AppendHost(hs, raw) ==
  LET line == rstrip(raw) IN
  IF SkipLine(line) THEN hs
  ELSE IF Len(split(line)) >= 2 THEN Append(hs, split(line)[2])
  ELSE hs

RECURSIVE CollectHosts(_, _)
CollectHosts(hs, lines) ==
  IF lines = <<>> THEN hs
  ELSE CollectHosts(AppendHost(hs, lines[1]), Tail(lines))

\* self.hosts after load_ssh_hosts has read `lines`.
load_ssh_hosts(lines) == sort(CollectHosts(<<>>, lines))

\* Mutant of Loaded: line 42 is missing and the entries of the earlier
\* load stay in the list.
LoadedOnto(old, lines) == sort(CollectHosts(old, lines))

\* self.hosts after load_ssh_hosts has run on an object whose list was
\* `old`: line 42 starts from a new empty list.
Loaded(old, lines) == load_ssh_hosts(lines)


(***************************************************************************)
(* The configuration file and the inputs of the environment.               *)
(***************************************************************************)
\* exists(ssh_config_path) and, when it exists, its lines.
NoFile == [exists |-> FALSE, lines |-> <<>>]
FileOf(ls) == [exists |-> TRUE, lines |-> ls]

\* The lines the file is made of in the session model: two host lines.
MainLines == { <<"H", " ", "a">>, <<"H", " ", "b">> }

\* One line of every kind the loader tells apart.
ConfigLines ==
  { <<>>,                                   \* blank
    <<" ", TAB>>,                           \* whitespace only
    <<" ", "H", " ", "a">>,                 \* indented by a space
    <<TAB, "H", " ", "a">>,                 \* indented by a tab
    <<"#", " ", "a">>,                      \* comment
    <<"H", " ", "*">>,                      \* wildcard host
    <<"H", " ", "a", "*", "b">>,            \* wildcard inside the pattern
    <<"H">>,                                \* one token
    <<"H", " ", "a">>,                      \* host a
    <<"H", TAB, "b", " ", "c", " ">> }      \* host b, more tokens, trailing blank

\* The example configuration of the specification: 'Host bastion',
\* '  HostName 10.0.0.1', 'Host *.internal', '# comment', 'Host web1'.
ExampleLines ==
  << <<"H", "o", "s", "t", " ", "b", "a", "s", "t", "i", "o", "n">>,
     <<" ", " ", "H", "o", "s", "t", "N", "a", "m", "e", " ", "1", "0", ".", "0", ".", "0", ".", "1">>,
     <<"H", "o", "s", "t", " ", "*", ".", "i", "n", "t", "e", "r", "n", "a", "l">>,
     <<"#", " ", "c", "o", "m", "m", "e", "n", "t">>,
     <<"H", "o", "s", "t", " ", "w", "e", "b", "1">> >>

FilesOver(L, n) == { FileOf(ls) : ls \in UNION { [1..k -> L] : k \in 0..n } }

\* curses key codes and ASCII codes that input_loop compares char_ord with.
KEY_DOWN == 258
KEY_UP == 259
KEY_RIGHT == 261
LF == 10
ESC == 27

\* chr(char_ord) for the modelled codes below 256 ("^J", "^[" stand for the
\* control characters LF and ESC), and '' for the codes outside 0..255.
Chr(o) ==
  IF o < 0 \/ o >= 256 THEN ""
  ELSE CASE o = 10 -> "^J" [] o = 27 -> "^["
         [] o = 69 -> "E" [] o = 71 -> "G" [] o = 72 -> "H" [] o = 74 -> "J"
         [] o = 75 -> "K" [] o = 76 -> "L" [] o = 81 -> "Q" [] o = 82 -> "R"
         [] o = 101 -> "e" [] o = 103 -> "g" [] o = 104 -> "h" [] o = 106 -> "j"
         [] o = 107 -> "k" [] o = 108 -> "l" [] o = 113 -> "q" [] o = 114 -> "r"
         [] o = 120 -> "x" [] o = 88 -> "X"

\* str.upper() on the characters Chr yields.
upper(c) ==
  CASE c = "e" -> "E" [] c = "g" -> "G" [] c = "h" -> "H" [] c = "j" -> "J"
    [] c = "k" -> "K" [] c = "l" -> "L" [] c = "q" -> "Q" [] c = "r" -> "R"
    [] c = "x" -> "X" [] OTHER -> c

\* The keys getch() delivers in the model: the arrow keys (260 is the unbound
\* left arrow), Enter, Escape, and the letters in both cases.
Keys ==
  { KEY_DOWN, KEY_UP, KEY_RIGHT, 260, LF, ESC,
    69, 71, 72, 74, 75, 76, 81, 82, 88,
    101, 103, 104, 106, 107, 108, 113, 114, 120 }

NavKeys == { KEY_DOWN, KEY_UP, 74, 75, 106, 107, 71, 103 }

\* Mutant of Dispatch: g and G are folded like the other letters.
DispatchFoldsG(o) ==
  LET char == Chr(o) IN
  IF o = KEY_DOWN \/ upper(char) = "J" THEN "next"
  ELSE IF o = KEY_UP \/ upper(char) = "K" THEN "prev"
  ELSE IF o = KEY_RIGHT \/ o = LF \/ upper(char) = "L" THEN "connect"
  ELSE IF o = ESC \/ upper(char) = "Q" THEN "quit"
  ELSE IF upper(char) = "G" THEN "first"
  ELSE IF upper(char) = "E" THEN "edit"
  ELSE IF upper(char) = "R" THEN "reload"
  ELSE IF upper(char) = "H" THEN "help"
  ELSE "none"

\* The branch of the if/elif chain of input_loop that char_ord takes.
Dispatch(o) ==
  LET char == Chr(o) IN
  IF o = KEY_DOWN \/ upper(char) = "J" THEN "next"
  ELSE IF o = KEY_UP \/ upper(char) = "K" THEN "prev"
  ELSE IF o = KEY_RIGHT \/ o = LF \/ upper(char) = "L" THEN "connect"
  ELSE IF o = ESC \/ upper(char) = "Q" THEN "quit"
  ELSE IF char = "g" THEN "first"
  ELSE IF char = "G" THEN "last"
  ELSE IF upper(char) = "E" THEN "edit"
  ELSE IF upper(char) = "R" THEN "reload"
  ELSE IF upper(char) = "H" THEN "help"
  ELSE "none"

Signals == { "SIGINT", "SIGTERM" }

\* How a spawned child ends; "nolaunch": the command cannot be started.
ChildExits == { "zero", "nonzero", "killed" }

(***************************************************************************)
(* State.                                                                  *)
(***************************************************************************)
VARIABLES
  file,           \* the file at ssh_config_path: [exists, lines]
  hosts,          \* self.hosts
  active_choice,  \* self.active_choice
  pc,             \* "init", "checked", "menu", "help", "ssh", "editor", "exited"
  key,            \* char_ord of input_loop: the last key read in the menu
  child,          \* the child of subprocess.run: "none", "running", or its end
  term,           \* the terminal: keypad, cursor visible, echo, curses screen mode
  cleanups,       \* runs of cleanup_curses since the display was last acquired
  entered,        \* input_loop has been entered
  exc,            \* the exception that ended the process, "none" while it runs
  exitCause,      \* what the process was doing when it ended
  exitStatus,     \* the exit status of the process, NoStatus while it runs
  act,            \* the branch of input_loop the last key took
  argv,           \* the command line of the last subprocess.run, <<>> if none
  screen,         \* what the last refresh painted: [mode, rows]
  height          \* the number of rows of the terminal window

vars == <<file, hosts, active_choice, pc, key, child, term, cleanups, entered,
          exc, exitCause, exitStatus, act, argv, screen, height>>

\* What the environment and the start-up steps leave alone.
loopVars == <<act, argv, screen, height>>

exitVars == <<exc, exitCause, exitStatus>>

NoKey == 0 - 1
NoStatus == 0 - 1
ExitOk == 0
ExitError == 1
ExitTraceback == 1

(***************************************************************************)
(* The terminal.                                                           *)
(***************************************************************************)
\* curses.wrapper before it calls main_wrapper: initscr, noecho, cbreak, keypad(1).
WrapperSetup == [keypad |-> TRUE, cursor |-> TRUE, echo |-> FALSE, visual |-> TRUE]

\* curses.wrapper's finally on every way out: keypad(0), echo, nocbreak, endwin.
WrapperFinally(t) ==
  [t EXCEPT !.keypad = FALSE, !.echo = TRUE, !.cursor = TRUE, !.visual = FALSE]

\* __init__: keypad(1), curs_set(0), noecho.
AttachScreen(t) == [t EXCEPT !.keypad = TRUE, !.cursor = FALSE, !.echo = FALSE]

cleanup_curses(t) ==
  [t EXCEPT !.keypad = FALSE, !.cursor = TRUE, !.echo = TRUE, !.visual = FALSE]

reinit_curses(t) == [t EXCEPT !.keypad = TRUE, !.cursor = FALSE, !.echo = FALSE]

\* screen.refresh() at the end of print_options: back in curses screen mode.
Refresh(t) == [t EXCEPT !.visual = TRUE]

\* The controller holds the display: no echo (raw mode) or curses screen mode.
Held == ~term.echo \/ term.visual

\* The terminal as the shell had it.
Restored == term.echo /\ term.cursor /\ ~term.visual

(***************************************************************************)
(* Process exit.  main() catches SSHConfigError and exits 1; sys.exit(0)   *)
(* is SystemExit; any other exception is uncaught and ends the process     *)
(* with a traceback.                                                       *)
(***************************************************************************)
StatusOf(e) ==
  IF e = "SystemExit" THEN ExitOk
  ELSE IF e = "SSHConfigError" THEN ExitError
  ELSE ExitTraceback

Exits(e, cause) ==
  /\ pc' = "exited"
  /\ exc' = e
  /\ exitCause' = cause
  /\ exitStatus' = StatusOf(e)

\* list[i] of Python: raises IndexError unless -len <= i < len.
IndexOk(l, i) == 0 - Len(l) <= i /\ i < Len(l)

\* list[i] of Python for an index that is in range: negative i counts from
\* the end.
Item(l, i) == IF i >= 0 THEN l[i + 1] ELSE l[Len(l) + i + 1]

\* list[i:] of Python.
SliceFrom(l, i) ==
  LET start == IF i >= 0 THEN i ELSE (IF Len(l) + i > 0 THEN Len(l) + i ELSE 0)
  IN SubSeq(l, start + 1, Len(l))

(***************************************************************************)
(* The display.  A row of the menu is [mark, host]: mark is the " > "      *)
(* prefix with colour and bold, no mark is the plain "   " prefix.         *)
(***************************************************************************)
NumHeaderRows == 2
HelpLastRow == 12

Heights == {SmallRows, LargeRows}

BlankScreen == [mode |-> "blank", rows |-> <<>>]

\* Mutant of print_options: the view starts at the top of the list and
\* marks the row of the selection.
print_options_from_top(hs, i, h) ==
  LET n == IF Len(hs) < h - NumHeaderRows THEN Len(hs) ELSE h - NumHeaderRows
  IN [mode |-> "menu",
      rows |-> [r \in 1..(IF n > 0 THEN n ELSE 0) |-> [mark |-> (r = i + 1), host |-> hs[r]]]]

\* print_options: the header, then hosts[active_choice:] from row
\* num_header_rows on, the first one marked; addstr raises curses.error at
\* a row outside the window and the loop stops there; then refresh.
print_options(hs, i, h) ==
  LET view == SliceFrom(hs, i)
      room == h - NumHeaderRows
      n == IF Len(view) < room THEN Len(view) ELSE room
  IN [mode |-> "menu",
      rows |-> [r \in 1..(IF n > 0 THEN n ELSE 0) |-> [mark |-> (r = 1), host |-> view[r]]]]

\* print_help_screen writes rows 0..12 without catching curses.error.
HelpFits(h) == h > HelpLastRow

\* The help text as painted by the refresh of its getch.
HelpScreen == [mode |-> "help", rows |-> <<>>]

\* The command lines: ssh, and the editor on ssh_config_path.
SshCommand(host) == << <<"s", "s", "h">>, host >>
EditorCommand == << <<"v", "i">>, <<"c", "o", "n", "f", "i", "g">> >>

(***************************************************************************)
(* The environment: the file at ssh_config_path changes under the          *)
(* controller (another process, or the editor child), one line at a time.  *)
(***************************************************************************)
FileAppend(L) ==
  /\ pc # "exited"
  /\ file.exists
  /\ Len(file.lines) < MaxLines
  /\ \E l \in L : file' = FileOf(Append(file.lines, l))
  /\ UNCHANGED <<hosts, active_choice, pc, key, child, term, cleanups, entered, exitVars>>
  /\ UNCHANGED loopVars

FileTruncate ==
  /\ pc # "exited"
  /\ file.exists
  /\ Len(file.lines) > 0
  /\ file' = FileOf(SubSeq(file.lines, 1, Len(file.lines) - 1))
  /\ UNCHANGED <<hosts, active_choice, pc, key, child, term, cleanups, entered, exitVars>>
  /\ UNCHANGED loopVars

FileDelete ==
  /\ pc # "exited"
  /\ file.exists
  /\ file' = NoFile
  /\ UNCHANGED <<hosts, active_choice, pc, key, child, term, cleanups, entered, exitVars>>
  /\ UNCHANGED loopVars

FileCreate ==
  /\ pc # "exited"
  /\ ~file.exists
  /\ file' = FileOf(<<>>)
  /\ UNCHANGED <<hosts, active_choice, pc, key, child, term, cleanups, entered, exitVars>>
  /\ UNCHANGED loopVars

(***************************************************************************)
(* Start-up: ISSH.__init__ under curses.wrapper, then run().               *)
(***************************************************************************)
\* The state after the signal handlers are installed (lines 19-23).
\* active_choice does not exist before line 28 and is not read before it.
InitController ==
  /\ hosts = <<>>
  /\ active_choice = 0
  /\ pc = "init"
  /\ key = NoKey
  /\ child = "none"
  /\ term = WrapperSetup
  /\ cleanups = 0
  /\ entered = FALSE
  /\ exc = "none"
  /\ exitCause = "none"
  /\ exitStatus = NoStatus
  /\ act = "none"
  /\ argv = <<>>
  /\ screen = BlankScreen
  /\ height \in Heights

\* Mutant of NoHosts: the empty list is not refused.
NoHostsIgnored(hs) == FALSE

\* The start-up check of __init__: an empty list is refused.
NoHosts(hs) == hs = <<>>

check_if_ssh_config_exists ==
  /\ pc = "init"
  /\ IF ~file.exists
     THEN /\ Exits("SSHConfigError", "startup")
          /\ term' = WrapperFinally(term)
     ELSE /\ pc' = "checked"
          /\ UNCHANGED <<term, exitVars>>
  /\ UNCHANGED <<file, hosts, active_choice, key, child, cleanups, entered>>
  /\ UNCHANGED loopVars

\* Lines 25-35, run() and the first print_options of input_loop.
Construct ==
  /\ pc = "checked"
  /\ IF ~file.exists
     THEN /\ hosts' = <<>>
          /\ Exits("FileNotFoundError", "startup")
          /\ term' = WrapperFinally(term)
          /\ UNCHANGED <<active_choice, entered, screen>>
     ELSE /\ hosts' = Loaded(hosts, file.lines)
          /\ IF NoHosts(hosts')
             THEN /\ Exits("SSHConfigError", "startup")
                  /\ term' = WrapperFinally(term)
                  /\ UNCHANGED <<active_choice, entered, screen>>
             ELSE /\ active_choice' = 0
                  /\ term' = Refresh(AttachScreen(term))
                  /\ screen' = print_options(hosts', active_choice', height)
                  /\ pc' = "menu"
                  /\ entered' = TRUE
                  /\ UNCHANGED exitVars
  /\ UNCHANGED <<file, key, child, cleanups, act, argv, height>>

(***************************************************************************)
(* shutdown as the handler of SIGINT and SIGTERM.  Before line 30 the      *)
(* object has no screen attribute and cleanup_curses raises AttributeError *)
(* at its first statement.                                                 *)
(***************************************************************************)
ScreenAttached == pc \in {"menu", "help", "ssh", "editor"}

Signal(sig) ==
  /\ pc # "exited"
  /\ IF ScreenAttached
     THEN /\ term' = WrapperFinally(cleanup_curses(term))
          /\ cleanups' = cleanups + 1
          /\ Exits("SystemExit", sig)
     ELSE /\ term' = WrapperFinally(term)
          /\ cleanups' = cleanups
          /\ Exits("AttributeError", sig)
  /\ child' = IF child = "running" THEN "killed" ELSE child
  /\ UNCHANGED <<file, hosts, active_choice, key, entered>>
  /\ UNCHANGED loopVars

(***************************************************************************)
(* input_loop: one iteration is print_options, getch, and the branch the   *)
(* key takes.  pc = "menu" is the controller blocked in getch at line 77   *)
(* after print_options has drawn the menu.                                 *)
(***************************************************************************)
\* Mutant of NextChoice: the guard against the last item is missing.
NextChoiceUnguarded(hs, i) == i + 1

\* Lines 81-82.
NextChoice(hs, i) == IF i < Len(hs) - 1 THEN i + 1 ELSE i

\* Lines 84-85.
PrevChoice(hs, i) == IF i > 0 THEN i - 1 ELSE i

\* Line 91.
FirstChoice(hs, i) == 0

\* Line 93.
LastChoice(hs, i) == Len(hs) - 1

SelectNext(c) ==
  /\ pc = "menu"
  /\ Dispatch(c) = "next"
  /\ key' = c
  /\ act' = "next"
  /\ child' = "none"
  /\ argv' = <<>>
  /\ active_choice' = NextChoice(hosts, active_choice)
  /\ screen' = print_options(hosts, active_choice', height)
  /\ UNCHANGED <<file, hosts, pc, term, cleanups, entered, exitVars, height>>

SelectPrev(c) ==
  /\ pc = "menu"
  /\ Dispatch(c) = "prev"
  /\ key' = c
  /\ act' = "prev"
  /\ child' = "none"
  /\ argv' = <<>>
  /\ active_choice' = PrevChoice(hosts, active_choice)
  /\ screen' = print_options(hosts, active_choice', height)
  /\ UNCHANGED <<file, hosts, pc, term, cleanups, entered, exitVars, height>>

SelectFirst(c) ==
  /\ pc = "menu"
  /\ Dispatch(c) = "first"
  /\ key' = c
  /\ act' = "first"
  /\ child' = "none"
  /\ argv' = <<>>
  /\ active_choice' = FirstChoice(hosts, active_choice)
  /\ screen' = print_options(hosts, active_choice', height)
  /\ UNCHANGED <<file, hosts, pc, term, cleanups, entered, exitVars, height>>

SelectLast(c) ==
  /\ pc = "menu"
  /\ Dispatch(c) = "last"
  /\ key' = c
  /\ act' = "last"
  /\ child' = "none"
  /\ argv' = <<>>
  /\ active_choice' = LastChoice(hosts, active_choice)
  /\ screen' = print_options(hosts, active_choice', height)
  /\ UNCHANGED <<file, hosts, pc, term, cleanups, entered, exitVars, height>>

\* Mutant of ConnectArgv: the first host is passed, not the selected one.
ConnectArgvFirst(hs, i) == SshCommand(hs[1])

\* Line 104: ["ssh", self.hosts[self.active_choice]].
ConnectArgv(hs, i) == SshCommand(Item(hs, i))

\* connect_to_host up to the spawn: cleanup_curses, the argument
\* self.hosts[self.active_choice], then subprocess.run starting ssh.
Connect(c) ==
  /\ pc = "menu"
  /\ Dispatch(c) = "connect"
  /\ key' = c
  /\ act' = "connect"
  /\ cleanups' = cleanups + 1
  /\ IF ~IndexOk(hosts, active_choice)
     THEN /\ Exits("IndexError", "connect")
          /\ term' = WrapperFinally(cleanup_curses(term))
          /\ child' = "none"
          /\ argv' = <<>>
     ELSE /\ argv' = ConnectArgv(hosts, active_choice)
          /\ \E launched \in BOOLEAN :
               IF launched
               THEN /\ pc' = "ssh"
                    /\ child' = "running"
                    /\ term' = cleanup_curses(term)
                    /\ UNCHANGED exitVars
               ELSE /\ Exits("FileNotFoundError", "connect")
                    /\ term' = WrapperFinally(cleanup_curses(term))
                    /\ child' = "nolaunch"
  /\ UNCHANGED <<file, hosts, active_choice, entered, screen, height>>

\* connect_to_host after the child has ended: reinit_curses, then the loop
\* draws the menu again.
SshExit(rc) ==
  /\ pc = "ssh"
  /\ child' = rc
  /\ term' = Refresh(reinit_curses(term))
  /\ screen' = print_options(hosts, active_choice, height)
  /\ cleanups' = 0
  /\ pc' = "menu"
  /\ UNCHANGED <<file, hosts, active_choice, key, entered, exitVars, act, argv, height>>

\* shutdown() from the quit branch.
Quit(c) ==
  /\ pc = "menu"
  /\ Dispatch(c) = "quit"
  /\ key' = c
  /\ act' = "quit"
  /\ child' = "none"
  /\ argv' = <<>>
  /\ term' = WrapperFinally(cleanup_curses(term))
  /\ cleanups' = cleanups + 1
  /\ Exits("SystemExit", "quit")
  /\ UNCHANGED <<file, hosts, active_choice, entered, screen, height>>

\* launch_editor up to the spawn of the editor on ssh_config_path.
Edit(c) ==
  /\ pc = "menu"
  /\ Dispatch(c) = "edit"
  /\ key' = c
  /\ act' = "edit"
  /\ argv' = EditorCommand
  /\ \E launched \in BOOLEAN :
       IF launched
       THEN /\ pc' = "editor"
            /\ child' = "running"
            /\ UNCHANGED <<term, exitVars>>
       ELSE /\ Exits("FileNotFoundError", "edit")
            /\ term' = WrapperFinally(term)
            /\ child' = "nolaunch"
  /\ UNCHANGED <<file, hosts, active_choice, cleanups, entered, screen, height>>

\* Mutant of EditorExit: the list is not loaded again after the editor.
EditorExitKeepsHosts(rc) ==
  /\ pc = "editor"
  /\ child' = rc
  /\ pc' = "menu"
  /\ term' = Refresh(term)
  /\ screen' = print_options(hosts, active_choice, height)
  /\ UNCHANGED <<file, hosts, active_choice, key, cleanups, entered, exitVars, act, argv, height>>

\* launch_editor after the editor has ended: load_ssh_hosts, then the loop
\* draws the menu again.
EditorExit(rc) ==
  /\ pc = "editor"
  /\ child' = rc
  /\ IF ~file.exists
     THEN /\ hosts' = <<>>
          /\ Exits("FileNotFoundError", "edit")
          /\ term' = WrapperFinally(term)
          /\ UNCHANGED screen
     ELSE /\ hosts' = Loaded(hosts, file.lines)
          /\ pc' = "menu"
          /\ term' = Refresh(term)
          /\ screen' = print_options(hosts', active_choice, height)
          /\ UNCHANGED exitVars
  /\ UNCHANGED <<file, active_choice, key, cleanups, entered, act, argv, height>>

\* The reload branch: load_ssh_hosts.
Reload(c) ==
  /\ pc = "menu"
  /\ Dispatch(c) = "reload"
  /\ key' = c
  /\ act' = "reload"
  /\ child' = "none"
  /\ argv' = <<>>
  /\ IF ~file.exists
     THEN /\ hosts' = <<>>
          /\ Exits("FileNotFoundError", "reload")
          /\ term' = WrapperFinally(term)
          /\ UNCHANGED screen
     ELSE /\ hosts' = Loaded(hosts, file.lines)
          /\ term' = Refresh(term)
          /\ screen' = print_options(hosts', active_choice, height)
          /\ UNCHANGED <<pc, exitVars>>
  /\ UNCHANGED <<file, active_choice, cleanups, entered, height>>

\* The help branch: print_help_screen up to its getch, whose refresh paints
\* the help text.  In a window of fewer than 13 rows addstr raises
\* curses.error before anything is painted.
Help(c) ==
  /\ pc = "menu"
  /\ Dispatch(c) = "help"
  /\ key' = c
  /\ act' = "help"
  /\ child' = "none"
  /\ argv' = <<>>
  /\ IF HelpFits(height)
     THEN /\ pc' = "help"
          /\ screen' = HelpScreen
          /\ UNCHANGED <<term, exitVars>>
     ELSE /\ Exits("curses.error", "help")
          /\ term' = WrapperFinally(term)
          /\ UNCHANGED screen
  /\ UNCHANGED <<file, hosts, active_choice, cleanups, entered, height>>

\* Mutant of HelpKey: the key read in help is obeyed when it is a quit key.
HelpKeyObeyed(c) ==
  /\ pc = "help"
  /\ c \in Keys
  /\ IF Dispatch(c) = "quit"
     THEN /\ term' = WrapperFinally(cleanup_curses(term))
          /\ cleanups' = cleanups + 1
          /\ Exits("SystemExit", "quit")
          /\ UNCHANGED screen
     ELSE /\ pc' = "menu"
          /\ screen' = print_options(hosts, active_choice, height)
          /\ UNCHANGED <<term, cleanups, exitVars>>
  /\ UNCHANGED <<file, hosts, active_choice, key, child, entered, act, argv, height>>

\* The getch of print_help_screen returns, whatever the key; the loop draws
\* the menu again.
HelpKey(c) ==
  /\ pc = "help"
  /\ c \in Keys
  /\ pc' = "menu"
  /\ screen' = print_options(hosts, active_choice, height)
  /\ UNCHANGED <<file, hosts, active_choice, key, child, term, cleanups, entered, exitVars>>
  /\ UNCHANGED <<act, argv, height>>

\* Mutant of Ignore: a key outside the table moves the selection to the top.
IgnoreSelectsFirst(c) ==
  /\ pc = "menu"
  /\ Dispatch(c) = "none"
  /\ key' = c
  /\ act' = "none"
  /\ child' = "none"
  /\ argv' = <<>>
  /\ active_choice' = 0
  /\ screen' = print_options(hosts, active_choice', height)
  /\ UNCHANGED <<file, hosts, pc, term, cleanups, entered, exitVars, height>>

\* No branch of the chain matches.
Ignore(c) ==
  /\ pc = "menu"
  /\ Dispatch(c) = "none"
  /\ key' = c
  /\ act' = "none"
  /\ child' = "none"
  /\ argv' = <<>>
  /\ screen' = print_options(hosts, active_choice, height)
  /\ UNCHANGED <<file, hosts, active_choice, pc, term, cleanups, entered, exitVars, height>>

(***************************************************************************)
(* The session: any file over MainLines, changing at any time.             *)
(***************************************************************************)
Init ==
  /\ file \in FilesOver(MainLines, MaxLines) \cup {NoFile}
  /\ InitController

Next ==
  \/ check_if_ssh_config_exists
  \/ Construct
  \/ \E c \in Keys : SelectNext(c)
  \/ \E c \in Keys : SelectPrev(c)
  \/ \E c \in Keys : SelectFirst(c)
  \/ \E c \in Keys : SelectLast(c)
  \/ \E c \in Keys : Connect(c)
  \/ \E rc \in ChildExits : SshExit(rc)
  \/ \E c \in Keys : Quit(c)
  \/ \E c \in Keys : Edit(c)
  \/ \E rc \in ChildExits : EditorExit(rc)
  \/ \E c \in Keys : Reload(c)
  \/ \E c \in Keys : Help(c)
  \/ \E c \in Keys : HelpKey(c)
  \/ \E c \in Keys : Ignore(c)
  \/ \E sig \in Signals : Signal(sig)
  \/ FileAppend(MainLines)
  \/ FileTruncate
  \/ FileDelete
  \/ FileCreate

Spec == Init /\ [][Next]_vars

(***************************************************************************)
(* Start-up alone: any file over ConfigLines, changing at any time.        *)
(***************************************************************************)
InitStart ==
  /\ file \in FilesOver(ConfigLines, MaxLines) \cup {NoFile, FileOf(ExampleLines)}
  /\ InitController

NextStart ==
  \/ check_if_ssh_config_exists
  \/ Construct
  \/ \E sig \in Signals : Signal(sig)
  \/ FileAppend(ConfigLines)
  \/ FileTruncate
  \/ FileDelete
  \/ FileCreate

SpecStart == InitStart /\ [][NextStart]_vars

(***************************************************************************)
(* Navigation alone: a file of 1..NavMaxLines host lines that does not     *)
(* change, and the navigation keys.                                        *)
(***************************************************************************)
InitNav ==
  /\ file \in FilesOver(MainLines, NavMaxLines) \ {FileOf(<<>>)}
  /\ InitController

NextNav ==
  \/ check_if_ssh_config_exists
  \/ Construct
  \/ \E c \in NavKeys : SelectNext(c)
  \/ \E c \in NavKeys : SelectPrev(c)
  \/ \E c \in NavKeys : SelectFirst(c)
  \/ \E c \in NavKeys : SelectLast(c)

SpecNav == InitNav /\ [][NextNav]_vars

(***************************************************************************)
(* Properties.                                                             *)
(***************************************************************************)
InLoop == pc \in {"menu", "help", "ssh", "editor"}

\* A step that runs load_ssh_hosts inside the loop: the reload key, or the
\* implicit reload when the editor has ended.
ReloadStep == (\E c \in Keys : Reload(c)) \/ (\E rc \in ChildExits : EditorExit(rc))

\* C1: whenever the controller is in the loop with a non-empty HostList,
\* 0 <= SelectionIndex < len(HostList).
C1_IndexInBounds ==
  (InLoop /\ hosts # <<>>) => (0 <= active_choice /\ active_choice < Len(hosts))

\* C2: a reload that runs with SelectionIndex = k and produces a list of
\* length m with 1 <= m <= k leaves SelectionIndex = m - 1.
C2_ReloadReclamps ==
  [][ (ReloadStep /\ pc' = "menu" /\ 1 <= Len(hosts') /\ Len(hosts') <= active_choice)
        => active_choice' = Len(hosts') - 1 ]_vars

\* C3: when the process has exited through a quit key or a signal taken in
\* the loop, cleanup_curses has run exactly once since the controller last
\* held the display.
C3_ReleaseExactlyOnce ==
  (pc = "exited" /\ entered /\ exitCause \in {"quit"} \cup Signals) => cleanups = 1

\* C4: an exit through a quit key or a signal is sys.exit(0) from a handler
\* that did not fail, with exit status 0 and the terminal restored.
C4_CleanExit ==
  (pc = "exited" /\ exitCause \in {"quit"} \cup Signals)
    => (exc = "SystemExit" /\ exitStatus = 0 /\ Restored)

\* C5: a connect action never ends the session, whatever happens to the
\* ssh child, including that it cannot be launched.
\* When the child has ended the controller is back in the menu with the
\* display reacquired.
C5_ConnectNeverEndsSession ==
  [][ /\ (pc = "menu" /\ IndexOk(hosts, active_choice) /\ \E c \in Keys : Connect(c))
         => pc' = "ssh"
      /\ (\E rc \in ChildExits : SshExit(rc))
         => (pc' = "menu" /\ ~term'.echo /\ term'.visual) ]_vars

\* C6: while a child (ssh or the editor) runs, the controller has released
\* the display: echo is on and curses screen mode has ended.
\* In the menu and in help the controller holds it.
C6_ChildOwnsTerminal ==
  /\ child = "running" => ~Held
  /\ pc \in {"menu", "help"} => Held

\* C7: a reload that fails because the file is missing leaves HostList as
\* it was before the reload; HostList changes only in a load that succeeds,
\* and then to the list loaded from the file.
C7_FailedLoadKeepsHosts ==
  [][ /\ (ReloadStep /\ ~file.exists) => hosts' = hosts
      /\ hosts' # hosts
           => (file.exists /\ (ReloadStep \/ Construct)
                 /\ hosts' = load_ssh_hosts(file.lines)) ]_vars

\* C8: once the input loop has been entered, the process ends only through
\* a quit key or a signal.
C8_OnlyQuitOrSignalEnds ==
  (pc = "exited" /\ entered) => exitCause \in {"quit"} \cup Signals

\* The keys of the keybinding table that move the selection.
DownKeys == {KEY_DOWN, 106, 74}
UpKeys == {KEY_UP, 107, 75}
FirstKeys == {103}
LastKeys == {71}

\* C9: on a fixed non-empty HostList of length n and from a valid index,
\* every navigation key keeps the list and keeps the index in [0, n-1];
\* down adds 1 unless at n-1, up subtracts 1 unless at 0, g yields 0 and
\* G yields n-1.
C9_Navigation ==
  [][ LET n == Len(hosts)
          i == active_choice
          j == active_choice'
      IN (pc = "menu" /\ n > 0 /\ 0 <= i /\ i < n)
           => /\ pc' = "menu"
              /\ hosts' = hosts
              /\ 0 <= j /\ j < n
              /\ key' \in DownKeys => j = (IF i = n - 1 THEN i ELSE i + 1)
              /\ key' \in UpKeys => j = (IF i = 0 THEN i ELSE i - 1)
              /\ key' \in FirstKeys => j = 0
              /\ key' \in LastKeys => j = n - 1 ]_vars

\* G then k on a 5-host list: the index is 3 after k was read.
C9_Witness ==
  /\ pc = "menu"
  /\ Len(hosts) = 5
  /\ key = 107
  /\ active_choice = 3

\* The kinds of line that yield no host, as the specification names them.
BlankLine(l) == \A i \in 1..Len(l) : IsSpace(l[i])
IndentedLine(l) == Len(l) > 0 /\ IsSpace(l[1])
CommentLine(l) == \E i \in 1..Len(l) : l[i] = "#" /\ \A j \in 1..(i - 1) : IsSpace(l[j])
WildcardLine(l) == \E i \in 1..Len(l) : l[i] = "*"
OneTokenLine(l) ==
  Cardinality({i \in 1..Len(l) : ~IsSpace(l[i]) /\ (i = 1 \/ IsSpace(l[i - 1]))}) = 1
UnusableLine(l) ==
  BlankLine(l) \/ IndentedLine(l) \/ CommentLine(l) \/ WildcardLine(l) \/ OneTokenLine(l)
UnusableFile(f) == f.exists /\ \A k \in 1..Len(f.lines) : UnusableLine(f.lines[k])

Refused == pc = "exited" /\ exitStatus # 0 /\ ~entered /\ key = NoKey /\ child = "none"

\* C10: when the existence check finds no file, or the load finds no file
\* or only unusable lines, the process ends there with a non-zero exit
\* status and without having entered the input loop.
C10_StartupRefusal ==
  [][ /\ (pc = "init" /\ ~file.exists /\ pc' # pc) => Refused'
      /\ (pc = "checked" /\ (~file.exists \/ UnusableFile(file)) /\ pc' # pc) => Refused' ]_vars

\* A file of three unusable lines, one of them a wildcard host, was refused.
C10_Witness ==
  /\ pc = "exited"
  /\ exc = "SSHConfigError"
  /\ exitStatus = 1
  /\ ~entered
  /\ UnusableFile(file)
  /\ Len(file.lines) = 3
  /\ \E k \in 1..3 : WildcardLine(file.lines[k]) /\ ~IndentedLine(file.lines[k])

(***************************************************************************)
(* The loader as the specification words it, stated without the string     *)
(* methods of the code.                                                    *)
(***************************************************************************)
TokenStarts(l) == {i \in 1..Len(l) : ~IsSpace(l[i]) /\ (i = 1 \/ IsSpace(l[i - 1]))}

\* The second whitespace-delimited token of a line that has two.
SecondToken(l) ==
  LET first == CHOOSE i \in TokenStarts(l) : \A j \in TokenStarts(l) : i <= j
      from == CHOOSE i \in TokenStarts(l) \ {first} :
                \A j \in TokenStarts(l) \ {first} : i <= j
      to == CHOOSE e \in from..Len(l) :
              /\ \A j \in from..e : ~IsSpace(l[j])
              /\ (e = Len(l) \/ IsSpace(l[e + 1]))
  IN SubSeq(l, from, to)

\* A line that declares a host.
HostLine(l) ==
  /\ ~BlankLine(l)
  /\ ~IndentedLine(l)
  /\ ~CommentLine(l)
  /\ ~WildcardLine(l)
  /\ Cardinality(TokenStarts(l)) >= 2

\* x <= y in the lexicographic order by code point.
LexLeq(x, y) ==
  \E k \in 0..Len(x) :
    /\ k <= Len(y)
    /\ \A j \in 1..k : x[j] = y[j]
    /\ (k = Len(x) \/ (k < Len(y) /\ Ord(x[k + 1]) < Ord(y[k + 1])))

Occurrences(seq, x) == Cardinality({i \in 1..Len(seq) : seq[i] = x})

\* hs is the sorted list of the second tokens of the host lines of `lines`,
\* duplicates kept.
LoadedAsSpecified(lines, hs) ==
  /\ Len(hs) = Cardinality({k \in 1..Len(lines) : HostLine(lines[k])})
  /\ \A k \in 1..Len(lines) :
       HostLine(lines[k]) =>
         Occurrences(hs, SecondToken(lines[k]))
           = Cardinality({m \in 1..Len(lines) :
                            HostLine(lines[m]) /\ SecondToken(lines[m]) = SecondToken(lines[k])})
  /\ \A i \in 1..(Len(hs) - 1) : LexLeq(hs[i], hs[i + 1])
  /\ \A i \in 1..Len(hs) : \A j \in 1..Len(hs[i]) : hs[i][j] # "*"
  /\ (\E k \in 1..Len(lines) : HostLine(lines[k])) => hs # <<>>

\* C11: the load of a file yields exactly the sorted list of the second
\* tokens of its lines that are not blank, indented, comments, wildcard
\* lines or one-token lines, duplicates kept, with no "*" in any entry and
\* non-empty when there is such a line.
C11_LoadResult ==
  [][ (Construct /\ file.exists) => LoadedAsSpecified(file.lines, hosts') ]_vars

\* The example: the five lines give ["bastion", "web1"].
C11_Witness ==
  /\ pc = "menu"
  /\ file = FileOf(ExampleLines)
  /\ hosts = << <<"b", "a", "s", "t", "i", "o", "n">>, <<"w", "e", "b", "1">> >>

(***************************************************************************)
(* Loads of a file that nobody changes: start-up, then reload keys and     *)
(* editor sessions that leave the file as it is.                           *)
(***************************************************************************)
InitReload ==
  /\ file \in FilesOver(ConfigLines, MaxLines) \cup {FileOf(ExampleLines)}
  /\ InitController

NextReload ==
  \/ check_if_ssh_config_exists
  \/ Construct
  \/ \E c \in Keys : Reload(c)
  \/ \E c \in Keys : Edit(c)
  \/ \E rc \in ChildExits : EditorExit(rc)

SpecReload == InitReload /\ [][NextReload]_vars

\* C12: the file being unchanged, a load that follows a load (the reload
\* key after start-up or after another reload, the load after an editor
\* session) leaves HostList identical, in the same order and of the same
\* length: entries never accumulate.
C12_LoadIdempotent ==
  [][ ReloadStep => (hosts' = hosts /\ Len(hosts') = Len(hosts)) ]_vars

\* A reload key has been obeyed on a list of several hosts.
C12_Witness ==
  /\ pc = "menu"
  /\ act = "reload"
  /\ key \in {82, 114}
  /\ Len(hosts) >= 2

(***************************************************************************)
(* The loop over a file that nobody changes: every key, the children and   *)
(* the signals.                                                            *)
(***************************************************************************)
InitKeys ==
  /\ file \in FilesOver(MainLines, MaxLines)
  /\ InitController

NextKeys ==
  \/ check_if_ssh_config_exists
  \/ Construct
  \/ \E c \in Keys : SelectNext(c)
  \/ \E c \in Keys : SelectPrev(c)
  \/ \E c \in Keys : SelectFirst(c)
  \/ \E c \in Keys : SelectLast(c)
  \/ \E c \in Keys : Connect(c)
  \/ \E rc \in ChildExits : SshExit(rc)
  \/ \E c \in Keys : Quit(c)
  \/ \E c \in Keys : Edit(c)
  \/ \E rc \in ChildExits : EditorExit(rc)
  \/ \E c \in Keys : Reload(c)
  \/ \E c \in Keys : Help(c)
  \/ \E c \in Keys : HelpKey(c)
  \/ \E c \in Keys : Ignore(c)
  \/ \E sig \in Signals : Signal(sig)

SpecKeys == InitKeys /\ [][NextKeys]_vars

(***************************************************************************)
(* The keybinding table of the specification, by key code.                 *)
(***************************************************************************)
ConnectKeys == {KEY_RIGHT, LF, 108, 76}
QuitKeys == {ESC, 113, 81}
EditKeys == {101, 69}
ReloadKeys == {114, 82}
HelpKeys == {104, 72}

Bound(c) ==
  CASE c \in DownKeys -> "next"
    [] c \in UpKeys -> "prev"
    [] c \in ConnectKeys -> "connect"
    [] c \in QuitKeys -> "quit"
    [] c \in FirstKeys -> "first"
    [] c \in LastKeys -> "last"
    [] c \in EditKeys -> "edit"
    [] c \in ReloadKeys -> "reload"
    [] c \in HelpKeys -> "help"
    [] OTHER -> "none"

\* The step of the loop that reads key c in Menu and obeys it.
Pressed(c) ==
  \/ SelectNext(c) \/ SelectPrev(c) \/ SelectFirst(c) \/ SelectLast(c)
  \/ Connect(c) \/ Quit(c) \/ Edit(c) \/ Reload(c) \/ Help(c) \/ Ignore(c)

\* What a step shows of the action it took.
Effect(a) ==
  CASE a = "next" ->
         /\ pc' = "menu" /\ hosts' = hosts
         /\ active_choice' = IF active_choice < Len(hosts) - 1
                             THEN active_choice + 1 ELSE active_choice
    [] a = "prev" ->
         /\ pc' = "menu" /\ hosts' = hosts
         /\ active_choice' = IF active_choice > 0 THEN active_choice - 1 ELSE active_choice
    [] a = "first" -> pc' = "menu" /\ hosts' = hosts /\ active_choice' = 0
    [] a = "last" -> pc' = "menu" /\ hosts' = hosts /\ active_choice' = Len(hosts) - 1
    [] a = "connect" ->
         /\ pc' \in {"ssh", "exited"} /\ exitCause' \in {"none", "connect"}
         /\ UNCHANGED <<hosts, active_choice>>
    [] a = "quit" -> pc' = "exited" /\ exitCause' = "quit"
    [] a = "edit" ->
         /\ pc' \in {"editor", "exited"} /\ exitCause' \in {"none", "edit"}
         /\ argv' = EditorCommand
    [] a = "reload" ->
         /\ pc' \in {"menu", "exited"} /\ exitCause' \in {"none", "reload"}
         /\ UNCHANGED active_choice
    [] a = "help" ->
         /\ pc' \in {"help", "exited"} /\ exitCause' \in {"none", "help"}
         /\ UNCHANGED <<hosts, active_choice>>
    [] OTHER -> pc' = "menu" /\ UNCHANGED <<hosts, active_choice, term>>

\* C13: a key read in Menu triggers exactly the action the keybinding
\* table gives it: both cases of j, k, l, q, e, r, h give the same action,
\* g gives first and G gives last.
C13_KeyDispatch ==
  [][ Pressed(key') => (act' = Bound(key') /\ Effect(Bound(key'))) ]_vars

\* G has been obeyed as "last" on a list where that differs from "first".
C13_Witness ==
  /\ pc = "menu"
  /\ key = 71
  /\ act = "last"
  /\ Len(hosts) >= 2
  /\ active_choice = Len(hosts) - 1

\* C14: the key that ends Help, whatever it is, only brings the Menu back:
\* it is not obeyed as a command, HostList and SelectionIndex stay, no
\* child is started, the file is not loaded and the process does not end.
C14_HelpKeyOnlyReturns ==
  [][ (pc = "help" /\ pc' # "help" /\ exitCause' \notin Signals) =>
        /\ pc' = "menu"
        /\ child' = "none"
        /\ screen' = print_options(hosts, active_choice, height)
        /\ UNCHANGED <<file, hosts, active_choice, key, act, argv, child, term, cleanups>>
        /\ UNCHANGED exitVars ]_vars

\* The Menu is back after Help, on a list of several hosts, with a
\* selection that a command key would have changed.
C14_Witness ==
  /\ pc = "menu"
  /\ act = "help"
  /\ screen.mode = "menu"
  /\ Len(hosts) >= 2
  /\ active_choice = 1

\* C15: a key outside the keybinding table, read in Menu, leaves HostList,
\* SelectionIndex, DisplayMode, the screen and the terminal as they are and
\* the loop goes on in Menu.
C15_UnboundKeyNoOp ==
  [][ (Pressed(key') /\ Bound(key') = "none") =>
        /\ pc' = "menu"
        /\ UNCHANGED <<file, hosts, active_choice, pc, term, screen, cleanups, entered>>
        /\ UNCHANGED exitVars ]_vars

\* An unbound key has been read with the selection away from the top: the
\* left arrow, a printable character, or its capital.
C15_Witness ==
  /\ pc = "menu"
  /\ key \in {260, 88, 120}
  /\ act = "none"
  /\ Len(hosts) >= 2
  /\ active_choice = 1

\* C16: connect invokes ssh with one argument, the alias at SelectionIndex
\* in HostList as it is when the key is read, and changes neither HostList
\* nor SelectionIndex.
C16_ConnectSelectedHost ==
  [][ (\E c \in Keys : Connect(c)) =>
        /\ 0 <= active_choice
        /\ active_choice < Len(hosts)
        /\ argv' = << <<"s", "s", "h">>, hosts[active_choice + 1] >>
        /\ UNCHANGED <<hosts, active_choice>> ]_vars

(***************************************************************************)
(* Reloads and editor sessions over a file that changes meanwhile, with    *)
(* the selection moved by the down and G keys.                             *)
(***************************************************************************)
NextEdit ==
  \/ check_if_ssh_config_exists
  \/ Construct
  \/ \E c \in Keys : SelectNext(c)
  \/ \E c \in Keys : SelectLast(c)
  \/ \E c \in Keys : Reload(c)
  \/ \E c \in Keys : Edit(c)
  \/ \E rc \in ChildExits : EditorExit(rc)
  \/ FileAppend(MainLines)
  \/ FileTruncate
  \/ FileDelete
  \/ FileCreate

SpecEdit == Init /\ [][NextEdit]_vars

\* The screen shows a run of consecutive entries of hs and nothing else.
ShowsOnly(sc, hs) ==
  /\ sc.mode = "menu"
  /\ \E k \in 0..Len(hs) :
       \A r \in 1..Len(sc.rows) : k + r <= Len(hs) /\ sc.rows[r].host = hs[k + r]

\* C17: the reload key, and the end of the editor, replace HostList as a
\* whole by the load of the file as it is at that moment, before the Menu
\* is drawn again: every Menu on the screen shows entries of the current
\* HostList only.
C17_ReloadBeforeRender ==
  [][ /\ (ReloadStep /\ file.exists) =>
           (pc' = "menu" /\ LoadedAsSpecified(file.lines, hosts'))
      /\ pc' = "menu" => ShowsOnly(screen', hosts') ]_vars

\* The Menu has been drawn after an editor session, with the list of the
\* file as it is now.
C17_Witness ==
  /\ pc = "menu"
  /\ act = "edit"
  /\ child \in ChildExits
  /\ file.exists
  /\ Len(hosts) >= 2
  /\ Len(hosts) = Len(file.lines)
  /\ Len(screen.rows) >= 1

\* The Menu of hs with the selection at index i in a window of h rows: the
\* entries from the selected position on, as many as there are rows below
\* the header.
Position(hs, i) == IF i >= 0 THEN i ELSE Len(hs) + i
Shown(hs, i, h) ==
  LET below == Cardinality({k \in 1..Len(hs) : k > Position(hs, i)})
  IN IF below < h - 2 THEN below ELSE h - 2

RenderedCurrent ==
  /\ screen.mode = "menu"
  /\ Len(screen.rows) = Shown(hosts, active_choice, height)
  /\ \A r \in 1..Len(screen.rows) :
       screen.rows[r].host = hosts[Position(hosts, active_choice) + r]

\* C18: the loop is sequential: whenever it waits for a key in Menu the
\* screen holds the Menu of the current HostList and SelectionIndex; a key
\* is read only in Menu, with no child running, and is followed by the one
\* action bound to it; while a child runs nothing happens but its end.
C18_Sequential ==
  [][ /\ pc' = "menu" => RenderedCurrent'
      /\ (key' # key \/ act' # act \/ argv' # argv) =>
           (pc = "menu" /\ child # "running" /\ Pressed(key') /\ act' = Bound(key'))
      /\ child = "running" =>
           \/ pc \in {"ssh", "editor"} /\ child' # "running" /\ UNCHANGED <<key, act, argv>>
           \/ UNCHANGED <<hosts, active_choice, pc, key, child, act, argv, screen, term>> ]_vars

\* The Menu is back after an ssh child has ended, in the small window, the
\* selection being the second of three hosts.
C18_Witness ==
  /\ pc = "menu"
  /\ act = "connect"
  /\ child \in ChildExits
  /\ height = SmallRows
  /\ Len(hosts) = 3
  /\ active_choice = 1
  /\ Len(screen.rows) = 1

\* C19: in every Menu the first host row shows HostList[SelectionIndex]
\* with the marker, the rows after it show the following hosts unmarked,
\* and so exactly one row is marked and it is the top host row.
C19_SelectionOnTop ==
  pc = "menu" =>
    /\ 0 <= active_choice
    /\ active_choice < Len(hosts)
    /\ Len(screen.rows) >= 1
    /\ \A r \in 1..Len(screen.rows) :
         /\ active_choice + r <= Len(hosts)
         /\ screen.rows[r].host = hosts[active_choice + r]
         /\ screen.rows[r].mark = (r = 1)

\* C20: HostList is non-empty whenever the controller is in the loop.
C20_NeverEmptyInLoop ==
  InLoop => hosts # <<>>
=============================================================================
